---- MODULE Spec2Model ----
(***************************************************************************)
(* Guppy: the changelog / undo-redo engine of the todo server              *)
(* (src/unnamed/part_010, lines 918-1980: the batch-aware, field-level     *)
(* version of the server module) over the sections, todos and changelog    *)
(* tables of src/unnamed/part_006 (lines 47-92).                           *)
(*                                                                         *)
(* Every exported handler is one action: the whole async function, with    *)
(* all the storage statements it awaits, run one call at a time.  A        *)
(* storage statement that SQLite rejects (primary key, foreign key, a      *)
(* value it cannot bind) throws: the handler stops there, the statements   *)
(* it already ran stay applied (no handler opens a transaction).           *)
(* SpecCrash and SpecRace run the facade handlers one awaited statement    *)
(* at a time instead: a call may be interrupted between two statements,    *)
(* and the calls of two requests may interleave.                           *)
(*                                                                         *)
(* Rows carry the columns id, name, order (sections) and id, text,         *)
(* completed, priority, sectionId, order, dueDate (todos).  The two        *)
(* timestamp columns createdAt/updatedAt are left out: they are Date       *)
(* columns like dueDate, which stands for them.                            *)
(***************************************************************************)
EXTENDS Integers, Sequences, FiniteSets, TLC

\* ------------------------------------------------------------------ bounds
MaxSections == 2      \* ids the sections AUTOINCREMENT counter may issue
MaxTodos == 2         \* ids the todos AUTOINCREMENT counter may issue
MaxLog == 2           \* a facade call starts only while fewer entries were ever issued
MaxRun == 3           \* longest mutation run N followed by the undo / redo runs
MaxGroup == 3         \* most entries in a group handed to the ordering of undo / redo
MaxClock == 1         \* milliseconds the clock of the batch ids advances

\* ------------------------------------------------------------------ values
\* A JavaScript value of a text or timestamp column: a string, a Date
\* (named by its ISO form) or null.  Numbers and booleans are TLA+ values.
Str(s) == [kind |-> "string", val |-> s]
DateOf(iso) == [kind |-> "date", val |-> iso]
Null == [kind |-> "null", val |-> ""]

\* The strings on which /^\d{4}-\d{2}-\d{2}T\d{2}:\d{2}:\d{2}/ matches.
IsoStrings == {"2025-01-01T09:00:00.000Z"}
IsoLike(s) == s \in IsoStrings

\* Columns whose values are strings, Dates or null.
TaggedFields == {"name", "text", "dueDate"}

NoBatch == 0          \* batchId null

\* JSON.stringify of one object level: a Date becomes its ISO string.
JsonStringify(obj) ==
  [f \in DOMAIN obj |->
     IF f \in TaggedFields /\ obj[f].kind = "date" THEN Str(obj[f].val) ELSE obj[f]]

\* JSON.parse gives back strings, numbers, booleans and null as written.
JsonParse(data) == data

parseDates(obj) ==
  [f \in DOMAIN obj |->
     IF f \in TaggedFields /\ obj[f].kind = "string" /\ obj[f].val # "" /\ IsoLike(obj[f].val)
       THEN DateOf(obj[f].val)
       ELSE obj[f]]

\* {...row, ...set}
Merge(row, set) ==
  [f \in DOMAIN row |-> IF f \in DOMAIN set THEN set[f] ELSE row[f]]

\* ---------------------------------------------------------------- storage
\* What SQLite / the driver accepts for the columns present in vals:
\* a text column binds strings only, a timestamp column a Date or null.
SectionValuesOk(vals) ==
  "name" \in DOMAIN vals => vals.name.kind = "string"

TodoValuesOk(vals) ==
  /\ "text" \in DOMAIN vals => vals.text.kind = "string"
  /\ "dueDate" \in DOMAIN vals => vals.dueDate.kind \in {"date", "null"}

HasId(rows, id) == \E r \in rows : r.id = id
RowById(rows, id) == CHOOSE r \in rows : r.id = id

MaxOf(a, b) == IF a >= b THEN a ELSE b

\* A store that does not enforce the reference.
FkNotEnforced(secs, tds) == TRUE

\* todos.sectionId references sections.id (enforced by the store).
FkHolds(secs, tds) == \A t \in tds : HasId(secs, t.sectionId)

Fail(db) == [db EXCEPT !.ok = FALSE]

\* db.insert(sections).values(row): row.id = 0 asks for the next id.
InsertSection(db, row) ==
  LET id == IF row.id = 0 THEN db.seq.sections + 1 ELSE row.id
      new == [row EXCEPT !.id = id]
  IN IF ~db.ok THEN db
     ELSE IF HasId(db.sections, id) \/ ~SectionValuesOk(row) THEN Fail(db)
     ELSE [db EXCEPT !.sections = @ \cup {new},
                     !.seq.sections = MaxOf(@, id)]

\* db.insert(todos).values(row)
InsertTodo(db, row) ==
  LET id == IF row.id = 0 THEN db.seq.todos + 1 ELSE row.id
      new == [row EXCEPT !.id = id]
  IN IF ~db.ok THEN db
     ELSE IF HasId(db.todos, id) \/ ~TodoValuesOk(row)
             \/ ~FkHolds(db.sections, {new}) THEN Fail(db)
     ELSE [db EXCEPT !.todos = @ \cup {new},
                     !.seq.todos = MaxOf(@, id)]

\* db.update(sections).set(set).where(id in ids)
UpdateSections(db, ids, set) ==
  IF ~db.ok THEN db
  ELSE IF ~SectionValuesOk(set) THEN Fail(db)
  ELSE [db EXCEPT !.sections =
          {IF r.id \in ids THEN Merge(r, set) ELSE r : r \in @}]

\* db.update(todos).set(set).where(...): ids are the rows the where matches
UpdateTodos(db, ids, set) ==
  LET new == {IF t.id \in ids THEN Merge(t, set) ELSE t : t \in db.todos}
  IN IF ~db.ok THEN db
     ELSE IF ~TodoValuesOk(set) \/ ~FkHolds(db.sections, new) THEN Fail(db)
     ELSE [db EXCEPT !.todos = new]

\* db.delete(sections).where(id = id)
DeleteSectionRow(db, id) ==
  LET new == {r \in db.sections : r.id # id}
  IN IF ~db.ok THEN db
     ELSE IF ~FkHolds(new, db.todos) THEN Fail(db)
     ELSE [db EXCEPT !.sections = new]

\* db.delete(todos).where(...): ids are the rows the where matches
DeleteTodos(db, ids) ==
  IF ~db.ok THEN db
  ELSE [db EXCEPT !.todos = {t \in @ : t.id \notin ids}]

\* the ids of the todos with eq(todos.sectionId, id)
TodoIdsOfSection(db, id) == {t.id : t \in {x \in db.todos : x.sectionId = id}}

\* Rows of a set in ascending id order (the order SQLite scans a rowid table).
RECURSIVE RowsAsc(_)
RowsAsc(rows) ==
  IF rows = {} THEN <<>>
  ELSE LET r == CHOOSE x \in rows : \A y \in rows : x.id <= y.id
       IN <<r>> \o RowsAsc(rows \ {r})

Reverse(s) == [i \in 1..Len(s) |-> s[Len(s) + 1 - i]]

\* -------------------------------------------------------------- changelog
\* generateBatchId: `batch_${Date.now()}_${random}`.  The model issues the
\* n-th batch the id n: two calls are taken to differ in time or in suffix.
generateBatchId(n) == n + 1

IsActive(e) == e.isActive

\* The removal without its condition: every entry goes.
PruneAll(db) ==
  IF ~db.ok THEN db
  ELSE [db EXCEPT !.changelog = <<>>]

\* db.delete(changelog).where(eq(changelog.isActive, false))
PruneInactive(db) ==
  IF ~db.ok THEN db
  ELSE [db EXCEPT !.changelog = SelectSeq(@, IsActive)]

\* JSON.stringify(data): a row, or {old, new} of an update
StringifyData(operation, data) ==
  IF operation = "update"
    THEN [old |-> JsonStringify(data.old), new |-> JsonStringify(data.new)]
    ELSE JsonStringify(data)

\* addChangelogEntry without the removal of the inactive entries.
addChangelogEntryNoPrune(db, operation, tableName, entityId, data, batchId) ==
  LET entry == [id |-> db.seq.changelog + 1,
                isActive |-> TRUE,
                batchId |-> batchId,
                operation |-> operation,
                tableName |-> tableName,
                entityId |-> entityId,
                data |-> StringifyData(operation, data)]
  IN IF ~db.ok THEN db
     ELSE [db EXCEPT !.changelog = Append(@, entry),
                     !.seq.changelog = @ + 1]

addChangelogEntry(db, operation, tableName, entityId, data, batchId) ==
  LET d1 == IF batchId = NoBatch THEN PruneInactive(db) ELSE db
      entry == [id |-> d1.seq.changelog + 1,
                isActive |-> TRUE,
                batchId |-> batchId,
                operation |-> operation,
                tableName |-> tableName,
                entityId |-> entityId,
                data |-> StringifyData(operation, data)]
  IN IF ~db.ok THEN db
     ELSE [d1 EXCEPT !.changelog = Append(@, entry),
                     !.seq.changelog = @ + 1]

\* The flag written to every entry of the log, whatever the id.
setChangelogEntryActiveStateAll(db, id, isActive) ==
  IF ~db.ok THEN db
  ELSE [db EXCEPT !.changelog =
          [i \in DOMAIN @ |-> [@[i] EXCEPT !.isActive = isActive]]]

setChangelogEntryActiveState(db, id, isActive) ==
  IF ~db.ok THEN db
  ELSE [db EXCEPT !.changelog =
          [i \in DOMAIN @ |-> IF @[i].id = id THEN [@[i] EXCEPT !.isActive = isActive]
                                              ELSE @[i]]]

RECURSIVE SetActiveAll(_, _, _)
SetActiveAll(db, entries, isActive) ==
  IF entries = <<>> THEN db
  ELSE SetActiveAll(setChangelogEntryActiveState(db, Head(entries).id, isActive),
                    Tail(entries), isActive)

\* The entry with the highest id among those with the given flag, then its
\* whole batch with that flag in ascending id order; <<>> for null.
LatestGroup(log, flag) ==
  LET cands == SelectSeq(log, LAMBDA e : e.isActive = flag)
      latest == cands[Len(cands)]
  IN IF cands = <<>> THEN <<>>
     ELSE IF latest.batchId # NoBatch
       THEN SelectSeq(cands, LAMBDA e : e.batchId = latest.batchId)
       ELSE <<latest>>

\* The query without its batch branch: the latest active entry alone.
getLatestActiveSingle(db) ==
  LET cands == SelectSeq(db.changelog, IsActive)
  IN IF cands = <<>> THEN <<>> ELSE <<cands[Len(cands)]>>

getLatestActiveChangelogEntry(db) == LatestGroup(db.changelog, TRUE)

\* The query without its isActive = false condition: the latest entry.
getLatestEntryAnyFlag(db) ==
  IF db.changelog = <<>> THEN <<>> ELSE <<db.changelog[Len(db.changelog)]>>

getLatestUndoneChangelogEntry(db) == LatestGroup(db.changelog, FALSE)

\* The delete with the condition of the pruning statement: the undone
\* entries only.
clearChangelogUndone(db) == [db EXCEPT !.changelog = SelectSeq(@, IsActive)]

\* clearChangelog: await db.delete(changelog).  The AUTOINCREMENT counter
\* of the table stays where it is.
clearChangelog(db) == [db EXCEPT !.changelog = <<>>]

\* ----------------------------------------------------------------- facade
Result(db, ret) == [db |-> db, ret |-> IF db.ok THEN ret ELSE "throw"]

\* previousState[key] !== newValue: two Date objects are never identical.
Differs(f, old, new) ==
  IF f \in TaggedFields /\ old.kind = "date" /\ new.kind = "date" THEN TRUE
  ELSE old # new

ChangedKeys(row, updates) == {f \in DOMAIN updates : Differs(f, row[f], updates[f])}

Restrict(fn, keys) == [f \in keys |-> fn[f]]

\* createSection writing its insert entry under a batch id.
createSectionBatched(db, data) ==
  LET d1 == InsertSection(db, [id |-> 0, name |-> data.name, order |-> 0])
      newSection == RowById(d1.sections, db.seq.sections + 1)
  IN IF ~d1.ok THEN Result(d1, "throw")
     ELSE Result(addChangelogEntry(d1, "insert", "sections", newSection.id,
                                   newSection, generateBatchId(db.seq.changelog)),
                 "row")

createSection(db, data) ==
  LET d1 == InsertSection(db, [id |-> 0, name |-> data.name, order |-> 0])
      newSection == RowById(d1.sections, db.seq.sections + 1)
  IN IF ~d1.ok THEN Result(d1, "throw")
     ELSE Result(addChangelogEntry(d1, "insert", "sections", newSection.id,
                                   newSection, NoBatch), "row")

updateSection(db, id, updates) ==
  LET previousState == RowById(db.sections, id)
      keys == ChangedKeys(previousState, updates)
      d1 == UpdateSections(db, {id}, updates)
  IN IF ~HasId(db.sections, id) THEN Result(db, "null")
     ELSE IF ~d1.ok THEN Result(d1, "throw")
     ELSE IF keys # {}
       THEN Result(addChangelogEntry(d1, "update", "sections", id,
                     [old |-> Restrict(previousState, keys),
                      new |-> Restrict(updates, keys)], NoBatch), "row")
       ELSE Result(d1, "row")

\* The child todos logged as single entries, outside the batch.
RECURSIVE LogTodoDeletesUnbatched(_, _, _)
LogTodoDeletesUnbatched(db, rows, batchId) ==
  IF rows = <<>> THEN db
  ELSE LogTodoDeletesUnbatched(
         addChangelogEntryNoPrune(db, "delete", "todos", Head(rows).id,
                                  Head(rows), NoBatch),
         Tail(rows), batchId)

RECURSIVE LogTodoDeletes(_, _, _)
LogTodoDeletes(db, rows, batchId) ==
  IF rows = <<>> THEN db
  ELSE LogTodoDeletes(addChangelogEntry(db, "delete", "todos", Head(rows).id,
                                        Head(rows), batchId),
                      Tail(rows), batchId)

\* deleteSection with the removal of the inactive entries ahead of the
\* existence check.
deleteSectionPruneFirst(db, id, moveToSectionId, batchId) ==
  LET previousSectionState == RowById(db.sections, id)
      previousTodos == RowsAsc({t \in db.todos : t.sectionId = id})
      d1 == PruneInactive(db)
      d2 == IF moveToSectionId # 0
              THEN UpdateTodos(d1, TodoIdsOfSection(d1, id),
                                    [sectionId |-> moveToSectionId])
              ELSE DeleteTodos(LogTodoDeletes(d1, previousTodos, batchId),
                               TodoIdsOfSection(d1, id))
      d3 == DeleteSectionRow(d2, id)
  IN IF ~HasId(db.sections, id) THEN Result(d1, "false")
     ELSE IF ~d3.ok THEN Result(d3, "throw")
     ELSE Result(addChangelogEntry(d3, "delete", "sections", id,
                                   previousSectionState, batchId), "true")

\* moveToSectionId 0 is the absent (falsy) argument.
deleteSection(db, id, moveToSectionId, batchId) ==
  LET previousSectionState == RowById(db.sections, id)
      previousTodos == RowsAsc({t \in db.todos : t.sectionId = id})
      d1 == PruneInactive(db)
      d2 == IF moveToSectionId # 0
              THEN UpdateTodos(d1, TodoIdsOfSection(d1, id),
                                    [sectionId |-> moveToSectionId])
              ELSE DeleteTodos(LogTodoDeletes(d1, previousTodos, batchId),
                               TodoIdsOfSection(d1, id))
      d3 == DeleteSectionRow(d2, id)
  IN IF ~HasId(db.sections, id) THEN Result(db, "false")
     ELSE IF ~d3.ok THEN Result(d3, "throw")
     ELSE Result(addChangelogEntry(d3, "delete", "sections", id,
                                   previousSectionState, batchId), "true")

createTodo(db, data) ==
  LET d1 == InsertTodo(db, [id |-> 0, text |-> data.text, completed |-> data.completed,
                            priority |-> data.priority, sectionId |-> data.sectionId,
                            order |-> 0, dueDate |-> Null])
      newTodo == RowById(d1.todos, db.seq.todos + 1)
  IN IF ~d1.ok THEN Result(d1, "throw")
     ELSE Result(addChangelogEntry(d1, "insert", "todos", newTodo.id,
                                   newTodo, NoBatch), "row")

updateTodo(db, id, updates) ==
  LET previousState == RowById(db.todos, id)
      keys == ChangedKeys(previousState, updates)
      d1 == UpdateTodos(db, {id}, updates)
  IN IF ~HasId(db.todos, id) THEN Result(db, "null")
     ELSE IF ~d1.ok THEN Result(d1, "throw")
     ELSE IF keys # {}
       THEN Result(addChangelogEntry(d1, "update", "todos", id,
                     [old |-> Restrict(previousState, keys),
                      new |-> Restrict(updates, keys)], NoBatch), "row")
       ELSE Result(d1, "row")

deleteTodo(db, id) ==
  LET previousState == RowById(db.todos, id)
      d1 == DeleteTodos(db, {id})
  IN IF ~HasId(db.todos, id) THEN Result(db, "false")
     ELSE Result(addChangelogEntry(d1, "delete", "todos", id,
                                   previousState, NoBatch), "true")

\* The bulk log written from the rows as they are after the write.
RECURSIVE LogTodoUpdatesAfterWrite(_, _, _, _)
LogTodoUpdatesAfterWrite(db, rows, set, batchId) ==
  IF rows = <<>> THEN db
  ELSE LogTodoUpdatesAfterWrite(
         addChangelogEntry(db, "update", "todos", Head(rows).id,
                           [old |-> set, new |-> set], batchId),
         Tail(rows), set, batchId)

RECURSIVE LogTodoUpdates(_, _, _, _)
LogTodoUpdates(db, rows, set, batchId) ==
  IF rows = <<>> THEN db
  ELSE LogTodoUpdates(addChangelogEntry(db, "update", "todos", Head(rows).id,
                        [old |-> Restrict(Head(rows), DOMAIN set), new |-> set],
                        batchId),
                      Tail(rows), set, batchId)

\* The body shared by moveTodos, markTodosCompleted, setTodosPriority and
\* setTodosDueDate: read the rows, write the one field, log one update each.
BulkSet(db, todoIds, set, batchId) ==
  LET previousStates == RowsAsc({t \in db.todos : t.id \in todoIds})
      d1 == UpdateTodos(db, todoIds, set)
  IN IF ~d1.ok THEN Result(d1, "throw")
     ELSE Result(LogTodoUpdates(d1, previousStates, set, batchId), "rows")

moveTodos(db, todoIds, targetSectionId, batchId) ==
  BulkSet(db, todoIds, [sectionId |-> targetSectionId], batchId)

markTodosCompleted(db, todoIds, completed, batchId) ==
  BulkSet(db, todoIds, [completed |-> completed], batchId)

setTodosPriority(db, todoIds, priority, batchId) ==
  BulkSet(db, todoIds, [priority |-> priority], batchId)

setTodosDueDate(db, todoIds, dueDate, batchId) ==
  BulkSet(db, todoIds, [dueDate |-> dueDate], batchId)

\* ------------------------------------------------------------ undo / redo
OfTable(entries, tableName) == SelectSeq(entries, LAMBDA e : e.tableName = tableName)

\* The undo that recreates a deleted row under a newly allocated id.
UndoEntryNewId(db, entry) ==
  LET data == JsonParse(entry.data)
  IN CASE entry.operation = "insert" ->
            IF entry.tableName = "todos"
              THEN DeleteTodos(db, {entry.entityId})
              ELSE DeleteSectionRow(db, entry.entityId)
       [] entry.operation = "update" ->
            IF entry.tableName = "todos"
              THEN UpdateTodos(db, {entry.entityId}, parseDates(data.old))
              ELSE UpdateSections(db, {entry.entityId}, parseDates(data.old))
       [] entry.operation = "delete" ->
            IF entry.tableName = "todos"
              THEN InsertTodo(db, [parseDates(data) EXCEPT !.id = 0])
              ELSE InsertSection(db, [parseDates(data) EXCEPT !.id = 0])

UndoEntry(db, entry) ==
  LET data == JsonParse(entry.data)
  IN CASE entry.operation = "insert" ->
            IF entry.tableName = "todos"
              THEN DeleteTodos(db, {entry.entityId})
              ELSE DeleteSectionRow(db, entry.entityId)
       [] entry.operation = "update" ->
            IF entry.tableName = "todos"
              THEN UpdateTodos(db, {entry.entityId}, parseDates(data.old))
              ELSE UpdateSections(db, {entry.entityId}, parseDates(data.old))
       [] entry.operation = "delete" ->
            IF entry.tableName = "todos"
              THEN InsertTodo(db, [parseDates(data) EXCEPT !.id = entry.entityId])
              ELSE InsertSection(db, [parseDates(data) EXCEPT !.id = entry.entityId])

RedoEntry(db, entry) ==
  LET data == JsonParse(entry.data)
  IN CASE entry.operation = "insert" ->
            IF entry.tableName = "todos"
              THEN InsertTodo(db, [parseDates(data) EXCEPT !.id = entry.entityId])
              ELSE InsertSection(db, [parseDates(data) EXCEPT !.id = entry.entityId])
       [] entry.operation = "update" ->
            IF DOMAIN data.new = {} THEN db
            ELSE IF entry.tableName = "todos"
              THEN UpdateTodos(db, {entry.entityId}, parseDates(data.new))
              ELSE UpdateSections(db, {entry.entityId}, parseDates(data.new))
       [] entry.operation = "delete" ->
            IF entry.tableName = "todos"
              THEN DeleteTodos(db, {entry.entityId})
              ELSE DeleteSectionRow(db, entry.entityId)

RECURSIVE UndoAll(_, _)
UndoAll(db, entries) ==
  IF entries = <<>> \/ ~db.ok THEN db
  ELSE UndoAll(UndoEntry(db, Head(entries)), Tail(entries))

RECURSIVE RedoAll(_, _)
RedoAll(db, entries) ==
  IF entries = <<>> \/ ~db.ok THEN db
  ELSE RedoAll(RedoEntry(db, Head(entries)), Tail(entries))

\* The undo order with the todo entries ahead of the section entries.
UndoOrderTodosFirst(entries) ==
  Reverse(OfTable(entries, "todos")) \o Reverse(OfTable(entries, "sections"))

\* [...sectionEntries.reverse(), ...todoEntries.reverse()]
UndoOrder(entries) ==
  Reverse(OfTable(entries, "sections")) \o Reverse(OfTable(entries, "todos"))

\* The redo order with the section entries always ahead of the todo entries.
RedoOrderSectionsFirst(entries) ==
  OfTable(entries, "sections") \o OfTable(entries, "todos")

\* hasDeletions ? [...todoEntries, ...sectionEntries] : [...sectionEntries, ...todoEntries]
RedoOrder(entries) ==
  LET hasDeletions == \E i \in DOMAIN entries : entries[i].operation = "delete"
  IN IF hasDeletions
       THEN OfTable(entries, "todos") \o OfTable(entries, "sections")
       ELSE OfTable(entries, "sections") \o OfTable(entries, "todos")

undo(db) ==
  LET entries == getLatestActiveChangelogEntry(db)
      d1 == UndoAll(db, UndoOrder(entries))
  IN IF entries = <<>> THEN Result(db, "false")
     ELSE Result(SetActiveAll(d1, entries, FALSE), "true")

redo(db) ==
  LET entries == getLatestUndoneChangelogEntry(db)
      d1 == RedoAll(db, RedoOrder(entries))
  IN IF entries = <<>> THEN Result(db, "false")
     ELSE Result(SetActiveAll(d1, entries, TRUE), "true")

\* ------------------------------------------------------------------ state
VARIABLES
  sections,     \* rows of the sections table
  todos,        \* rows of the todos table
  changelog,    \* rows of the changelog table, in id order
  seq,          \* sqlite_sequence: the highest id ever issued per table
  batchSeq,     \* number of batch ids written to the log so far (an id no entry
                \* carries was never seen, and is not counted)
  last,         \* the last handler call: its name, arguments and outcome
  base,         \* the tables at the start, when the changelog was empty
  run,          \* the shape of the call sequence so far: N mutations, K undos, redos
  scen,         \* how far the calls so far follow the "Work" scenario, -1 if not
  undoneOrder,  \* the undone groups still in the log, in the order they were undone
  calls,        \* per client, the handler call in flight: where it stands (the
                \* statement it awaits next) and its local variables
  now,          \* Date.now(), in milliseconds since the server started
  probe         \* a function applied on its own: its name, argument and result

vars == <<sections, todos, changelog, seq, batchSeq, last, base, run, scen, undoneOrder,
          calls, now, probe>>

NoProbe == [fn |-> "none", arg |-> <<>>, out |-> <<>>]

\* the requests that may be in flight together (one HTTP batch runs its
\* calls concurrently)
Clients == {1, 2}

NoRow == [id |-> 0]

\* no call in flight
Idle == [op |-> "none", pc |-> "idle", id |-> 0, move |-> 0, updates |-> <<>>,
         prev |-> NoRow, keys |-> {}, rest |-> <<>>, batchId |-> NoBatch,
         before |-> NoRow, entries |-> <<>>]

Names == {"Work", "Home"}
Texts == {"write report", "2025-01-01T09:00:00.000Z"}
\* the todos given to todoCreate: a text and a completed flag
NewTodos == {[text |-> "write report", completed |-> FALSE],
             [text |-> "2025-01-01T09:00:00.000Z", completed |-> TRUE]}
Priorities == {0, 1}
DueDates == {Null, DateOf("2025-01-01T09:00:00.000Z")}
SectionIds == 1..MaxSections
TodoIds == 1..MaxTodos
\* the id lists given to the bulk calls: the first k todo ids
TodoIdSets == {1..k : k \in TodoIds}

BatchedOps == {"deleteSection", "moveTodos", "markTodosCompleted",
               "setTodosPriority", "setTodosDueDate"}

Db == [sections |-> sections, todos |-> todos, changelog |-> changelog,
       seq |-> seq, ok |-> TRUE]

Tables == [sections |-> sections, todos |-> todos]

NoTables == [sections |-> {}, todos |-> {}]

EntryIds(entries) == {entries[i].id : i \in DOMAIN entries}

HasInactive(log) == \E i \in DOMAIN log : ~log[i].isActive

OffRun == [ph |-> "X", m |-> 0, u |-> 0, r |-> 0, allRec |-> FALSE,
           redoOk |-> FALSE, post |-> NoTables]

\* run: "M" while only facade calls were made (m of them, allRec when each
\* recorded a group), "U" during the undos that follow (u <= m, post the
\* tables after the m calls), "R" during the redos after them (r <= u,
\* redoOk while each returned true), "X" for any other sequence.  A facade
\* call that changes no table and no log entry is not counted in m.
NextRun(kind, res) ==
  CASE kind = "mutation" ->
         IF run.ph = "M" /\ res.db.sections = sections /\ res.db.todos = todos
            /\ res.db.changelog = changelog
           THEN run
         ELSE IF run.ph = "M" /\ run.m < MaxRun
           THEN [run EXCEPT !.m = @ + 1,
                            !.allRec = @ /\ res.db.seq.changelog > seq.changelog]
           ELSE OffRun
    [] kind = "undo" ->
         IF run.ph \in {"M", "U"} /\ run.u < run.m
           THEN [run EXCEPT !.ph = "U", !.u = @ + 1,
                            !.post = IF run.ph = "M" THEN Tables ELSE @]
           ELSE OffRun
    [] kind = "redo" ->
         IF run.ph \in {"U", "R"} /\ run.r < run.u
           THEN [run EXCEPT !.ph = "R", !.r = @ + 1,
                            !.redoOk = (run.ph = "U" \/ @) /\ res.ret = "true"]
           ELSE OffRun

NextUndoneOrder(kind, res, group) ==
  CASE kind = "mutation" ->
         SelectSeq(undoneOrder, LAMBDA g : g \subseteq EntryIds(res.db.changelog))
    [] kind = "undo" ->
         IF res.ret = "true" THEN Append(undoneOrder, group) ELSE undoneOrder
    [] kind = "redo" ->
         IF res.ret = "true" THEN SelectSeq(undoneOrder, LAMBDA g : g # group)
         ELSE undoneOrder

\* One handler call: the tables it leaves, and what is remembered of the call.
Commit(res, kind, op, id, move, ids, group, steps) ==
  /\ sections' = res.db.sections
  /\ todos' = res.db.todos
  /\ changelog' = res.db.changelog
  /\ seq' = res.db.seq
  /\ batchSeq' = IF \E i \in DOMAIN res.db.changelog :
                       res.db.changelog[i].batchId = generateBatchId(batchSeq)
                  THEN batchSeq + 1 ELSE batchSeq
  /\ last' = [op |-> op, ret |-> res.ret, id |-> id, move |-> move,
              ids |-> ids, group |-> group, hadInactive |-> HasInactive(changelog),
              added |-> res.db.seq.changelog - seq.changelog]
  /\ base' = base
  /\ run' = NextRun(kind, res)
  /\ scen' = IF scen >= 0 /\ scen + 1 \in steps THEN scen + 1 ELSE -1
  /\ undoneOrder' = NextUndoneOrder(kind, res, group)
  /\ calls' = calls
  /\ UNCHANGED <<now, probe>>

Prefilled ==
  [sections |-> {[id |-> 1, name |-> Str("Work"), order |-> 0]},
   todos |-> {[id |-> 1, text |-> Str("write report"), completed |-> FALSE,
               priority |-> 0, sectionId |-> 1, order |-> 0, dueDate |-> Null]}]

\* The server starts with an empty changelog (startServer calls
\* clearChangelog) over a database that is empty or holds earlier rows.
InitWith(t) ==
  /\ sections = t.sections
  /\ todos = t.todos
  /\ base = t
  /\ seq = [sections |-> Cardinality(t.sections), todos |-> Cardinality(t.todos),
            changelog |-> 0]
  /\ scen = IF t = NoTables THEN 0 ELSE -1
  /\ changelog = <<>>
  /\ batchSeq = 0
  /\ last = [op |-> "init", ret |-> "none", id |-> 0, move |-> 0,
             ids |-> {}, group |-> {}, hadInactive |-> FALSE, added |-> 0]
  /\ run = [ph |-> "M", m |-> 0, u |-> 0, r |-> 0, allRec |-> TRUE,
            redoOk |-> FALSE, post |-> NoTables]
  /\ undoneOrder = <<>>
  /\ calls = [c \in Clients |-> Idle]
  /\ now = 0

InitStore == \E t \in {NoTables, Prefilled} : InitWith(t)

Init == InitStore /\ probe = NoProbe

\* A facade call is explored while fewer than MaxLog entries were ever
\* issued; beyond that only the calls that continue the scenario are.
Explored(steps) == seq.changelog < MaxLog \/ (scen >= 0 /\ scen + 1 \in steps)

CreateSection ==
  \E name \in Names :
    LET steps == IF name = "Work" THEN {1} ELSE {}
    IN /\ Explored(steps) /\ seq.sections < MaxSections
       /\ Commit(createSection(Db, [name |-> Str(name)]), "mutation",
                 "createSection", 0, 0, {}, {}, steps)

UpdateSection ==
  \E id \in SectionIds, name \in Names :
    /\ Explored({})
    /\ Commit(updateSection(Db, id, [name |-> Str(name)]), "mutation",
              "updateSection", id, 0, {}, {}, {})

DeleteSection ==
  \E id \in SectionIds, move \in {0} \cup SectionIds :
    LET steps == IF id = 1 /\ move = 0 THEN {4} ELSE {}
    IN /\ Explored(steps)
       /\ Commit(deleteSection(Db, id, move, generateBatchId(batchSeq)), "mutation",
                 "deleteSection", id, move, {}, {}, steps)

CreateTodo ==
  \E sectionId \in SectionIds, new \in NewTodos :
    LET steps == IF sectionId = 1 /\ new.text = "write report" THEN {2} ELSE {}
    IN /\ Explored(steps) /\ seq.todos < MaxTodos
       /\ Commit(createTodo(Db, [sectionId |-> sectionId, text |-> Str(new.text),
                                 priority |-> 0, completed |-> new.completed]),
                 "mutation", "createTodo", 0, 0, {}, {}, steps)

UpdateTodoPriority ==
  \E id \in TodoIds, priority \in Priorities :
    LET steps == IF id = 1 /\ priority = 1 THEN {3} ELSE {}
    IN /\ Explored(steps)
       /\ Commit(updateTodo(Db, id, [priority |-> priority]), "mutation",
                 "updateTodo", id, 0, {}, {}, steps)

UpdateTodoText ==
  \E id \in TodoIds, text \in Texts :
    /\ Explored({})
    /\ Commit(updateTodo(Db, id, [text |-> Str(text)]), "mutation",
              "updateTodo", id, 0, {}, {}, {})

UpdateTodoDueDate ==
  \E id \in TodoIds, dueDate \in DueDates :
    /\ Explored({})
    /\ Commit(updateTodo(Db, id, [dueDate |-> dueDate]), "mutation",
              "updateTodo", id, 0, {}, {}, {})

DeleteTodo ==
  \E id \in TodoIds :
    /\ Explored({})
    /\ Commit(deleteTodo(Db, id), "mutation", "deleteTodo", id, 0, {}, {}, {})

MoveTodos ==
  \E todoIds \in TodoIdSets, targetSectionId \in SectionIds :
    /\ Explored({})
    /\ Commit(moveTodos(Db, todoIds, targetSectionId, generateBatchId(batchSeq)),
              "mutation", "moveTodos", 0, 0, todoIds, {}, {})

MarkTodosCompleted ==
  \E todoIds \in TodoIdSets, completed \in BOOLEAN :
    /\ Explored({})
    /\ Commit(markTodosCompleted(Db, todoIds, completed, generateBatchId(batchSeq)),
              "mutation", "markTodosCompleted", 0, 0, todoIds, {}, {})

SetTodosPriority ==
  \E todoIds \in TodoIdSets, priority \in Priorities :
    /\ Explored({})
    /\ Commit(setTodosPriority(Db, todoIds, priority, generateBatchId(batchSeq)),
              "mutation", "setTodosPriority", 0, 0, todoIds, {}, {})

SetTodosDueDate ==
  \E todoIds \in TodoIdSets, dueDate \in DueDates :
    /\ Explored({})
    /\ Commit(setTodosDueDate(Db, todoIds, dueDate, generateBatchId(batchSeq)),
              "mutation", "setTodosDueDate", 0, 0, todoIds, {}, {})

\* undo() and redo() can always be called.
Undo ==
  /\ TRUE
  /\ Commit(undo(Db), "undo", "undo", 0, 0, {},
            EntryIds(getLatestActiveChangelogEntry(Db)), 5..9)

Redo ==
  /\ TRUE
  /\ Commit(redo(Db), "redo", "redo", 0, 0, {},
            EntryIds(getLatestUndoneChangelogEntry(Db)), {})

Next ==
  \/ CreateSection
  \/ UpdateSection
  \/ DeleteSection
  \/ CreateTodo
  \/ UpdateTodoPriority
  \/ UpdateTodoText
  \/ UpdateTodoDueDate
  \/ DeleteTodo
  \/ MoveTodos
  \/ MarkTodosCompleted
  \/ SetTodosPriority
  \/ SetTodosDueDate
  \/ Undo
  \/ Redo

Spec == Init /\ [][Next]_vars

\* ------------------------------------------------- handlers, step by step
\* The same handlers with one action per awaited storage statement.  The
\* handlers are async functions: between two awaits the calls of other
\* requests run, and a statement that throws, or the death of the process,
\* ends the call where it stands.  No undo() runs here, so the log holds
\* no inactive entry and the pruning statement of addChangelogEntry
\* deletes nothing: addChangelogEntry is one step.
StepTexts == {"call mom"}

\* One awaited statement of client c's call: the store it leaves and the
\* call's next position.
Step(db, c, call) ==
  /\ sections' = db.sections
  /\ todos' = db.todos
  /\ changelog' = db.changelog
  /\ seq' = db.seq
  /\ batchSeq' = IF \E i \in DOMAIN db.changelog :
                       db.changelog[i].batchId = generateBatchId(batchSeq)
                  THEN batchSeq + 1 ELSE batchSeq
  /\ calls' = [calls EXCEPT ![c] = call]
  /\ UNCHANGED <<last, base, run, scen, undoneOrder, now, probe>>

\* createTodo: await db.insert(todos).values(data).returning()
CreateTodoInsert(c) ==
  \E sectionId \in SectionIds, text \in StepTexts :
    LET d1 == InsertTodo(Db, [id |-> 0, text |-> Str(text), completed |-> FALSE,
                              priority |-> 0, sectionId |-> sectionId,
                              order |-> 0, dueDate |-> Null])
    IN /\ calls[c].pc = "idle" /\ seq.changelog < MaxLog /\ seq.todos < MaxTodos
       /\ Step(d1, c, IF d1.ok
                        THEN [Idle EXCEPT !.op = "createTodo", !.pc = "log",
                                          !.prev = RowById(d1.todos, seq.todos + 1)]
                        ELSE Idle)

\* createTodo: await addChangelogEntry('insert', 'todos', newTodo.id, newTodo)
CreateTodoLog(c) ==
  /\ calls[c].op = "createTodo" /\ calls[c].pc = "log"
  /\ Step(addChangelogEntry(Db, "insert", "todos", calls[c].prev.id,
                            calls[c].prev, NoBatch), c, Idle)

\* updateTodo: previousState = await getTodoById(id); null ends the call
UpdateTodoRead(c) ==
  \E id \in TodoIds, priority \in Priorities :
    LET updates == [priority |-> priority]
    IN /\ calls[c].pc = "idle" /\ seq.changelog < MaxLog
       /\ Step(Db, c, IF HasId(todos, id)
                        THEN [Idle EXCEPT !.op = "updateTodo", !.pc = "write",
                                !.id = id, !.updates = updates,
                                !.prev = RowById(todos, id),
                                !.keys = ChangedKeys(RowById(todos, id), updates)]
                        ELSE Idle)

\* updateTodo: await db.update(todos).set(updates).where(id).returning();
\* the call goes on to the log when a row came back and a field differed
UpdateTodoWrite(c) ==
  LET call == calls[c]
      d1 == UpdateTodos(Db, {call.id}, call.updates)
  IN /\ call.op = "updateTodo" /\ call.pc = "write"
     /\ Step(d1, c, IF d1.ok /\ HasId(todos, call.id) /\ call.keys # {}
                      THEN [call EXCEPT !.pc = "log",
                                        !.before = RowById(todos, call.id)]
                      ELSE Idle)

\* updateTodo: await addChangelogEntry('update', 'todos', id, {old, new})
UpdateTodoLog(c) ==
  LET call == calls[c]
  IN /\ call.op = "updateTodo" /\ call.pc = "log"
     /\ Step(addChangelogEntry(Db, "update", "todos", call.id,
                               [old |-> Restrict(call.prev, call.keys),
                                new |-> Restrict(call.updates, call.keys)],
                               NoBatch), c, Idle)

\* updateSection: previousState = await getSectionById(id)
UpdateSectionRead(c) ==
  \E id \in SectionIds, name \in Names :
    LET updates == [name |-> Str(name)]
    IN /\ calls[c].pc = "idle" /\ seq.changelog < MaxLog
       /\ Step(Db, c, IF HasId(sections, id)
                        THEN [Idle EXCEPT !.op = "updateSection", !.pc = "write",
                                !.id = id, !.updates = updates,
                                !.prev = RowById(sections, id),
                                !.keys = ChangedKeys(RowById(sections, id), updates)]
                        ELSE Idle)

\* updateSection: await db.update(sections).set(updates).where(id).returning()
UpdateSectionWrite(c) ==
  LET call == calls[c]
      d1 == UpdateSections(Db, {call.id}, call.updates)
  IN /\ call.op = "updateSection" /\ call.pc = "write"
     /\ Step(d1, c, IF d1.ok /\ HasId(sections, call.id) /\ call.keys # {}
                      THEN [call EXCEPT !.pc = "log",
                                        !.before = RowById(sections, call.id)]
                      ELSE Idle)

\* updateSection: await addChangelogEntry('update', 'sections', id, {old, new})
UpdateSectionLog(c) ==
  LET call == calls[c]
  IN /\ call.op = "updateSection" /\ call.pc = "log"
     /\ Step(addChangelogEntry(Db, "update", "sections", call.id,
                               [old |-> Restrict(call.prev, call.keys),
                                new |-> Restrict(call.updates, call.keys)],
                               NoBatch), c, Idle)

\* the moveToSectionId arguments of the step-by-step calls: absent
StepMoves == {0}

\* deleteSection: previousSectionState = await getSectionById(id)
DeleteSectionRead(c) ==
  \E id \in SectionIds, move \in StepMoves :
    /\ calls[c].pc = "idle" /\ seq.changelog < MaxLog
    /\ Step(Db, c, IF HasId(sections, id)
                     THEN [Idle EXCEPT !.op = "deleteSection", !.pc = "readTodos",
                                       !.id = id, !.move = move,
                                       !.prev = RowById(sections, id)]
                     ELSE Idle)

\* deleteSection: previousTodos = await getTodosBySectionId(id); batchId
DeleteSectionReadTodos(c) ==
  LET call == calls[c]
  IN /\ call.op = "deleteSection" /\ call.pc = "readTodos"
     /\ Step(Db, c, [call EXCEPT !.pc = "prune",
                       !.rest = RowsAsc({t \in todos : t.sectionId = call.id}),
                       !.batchId = generateBatchId(batchSeq)])

\* deleteSection: await db.delete(changelog).where(isActive = false)
DeleteSectionPrune(c) ==
  LET call == calls[c]
  IN /\ call.op = "deleteSection" /\ call.pc = "prune"
     /\ Step(PruneInactive(Db), c,
             [call EXCEPT !.pc = IF call.move = 0 /\ call.rest # <<>>
                                   THEN "logTodo" ELSE "todos"])

\* deleteSection: one turn of the loop over previousTodos,
\* await addChangelogEntry('delete', 'todos', todo.id, todo, batchId)
DeleteSectionLogTodo(c) ==
  LET call == calls[c]
      todo == Head(call.rest)
  IN /\ call.op = "deleteSection" /\ call.pc = "logTodo"
     /\ Step(addChangelogEntry(Db, "delete", "todos", todo.id, todo, call.batchId), c,
             [call EXCEPT !.rest = Tail(call.rest),
                          !.pc = IF Tail(call.rest) = <<>> THEN "todos" ELSE "logTodo"])

\* deleteSection: the statement on the child todos, the update to
\* moveToSectionId or the delete
DeleteSectionTodos(c) ==
  LET call == calls[c]
      d1 == IF call.move # 0
              THEN UpdateTodos(Db, TodoIdsOfSection(Db, call.id),
                               [sectionId |-> call.move])
              ELSE DeleteTodos(Db, TodoIdsOfSection(Db, call.id))
  IN /\ call.op = "deleteSection" /\ call.pc = "todos"
     /\ Step(d1, c, IF d1.ok THEN [call EXCEPT !.pc = "deleteRow"] ELSE Idle)

\* deleteSection: result = await db.delete(sections).where(id);
\* success = result.changes > 0
DeleteSectionDelete(c) ==
  LET call == calls[c]
      d1 == DeleteSectionRow(Db, call.id)
  IN /\ call.op = "deleteSection" /\ call.pc = "deleteRow"
     /\ Step(d1, c, IF d1.ok /\ HasId(sections, call.id)
                      THEN [call EXCEPT !.pc = "log"] ELSE Idle)

\* deleteSection: await addChangelogEntry('delete', 'sections', id, row, batchId)
DeleteSectionLog(c) ==
  LET call == calls[c]
  IN /\ call.op = "deleteSection" /\ call.pc = "log"
     /\ Step(addChangelogEntry(Db, "delete", "sections", call.id, call.prev,
                               call.batchId), c, Idle)

\* The statement a call awaits throws a storage error, or the process
\* dies: the call ends where it stands, what it wrote stays written.
Interrupt(c) ==
  /\ calls[c].pc # "idle"
  /\ Step(Db, c, Idle)

\* one request at a time, which may be interrupted
NextCrash ==
  \E c \in {1} :
    \/ CreateTodoInsert(c)
    \/ CreateTodoLog(c)
    \/ UpdateTodoRead(c)
    \/ UpdateTodoWrite(c)
    \/ UpdateTodoLog(c)
    \/ UpdateSectionRead(c)
    \/ UpdateSectionWrite(c)
    \/ UpdateSectionLog(c)
    \/ DeleteSectionRead(c)
    \/ DeleteSectionReadTodos(c)
    \/ DeleteSectionPrune(c)
    \/ DeleteSectionLogTodo(c)
    \/ DeleteSectionTodos(c)
    \/ DeleteSectionDelete(c)
    \/ DeleteSectionLog(c)
    \/ Interrupt(c)

SpecCrash == Init /\ [][NextCrash]_vars

\* update requests in flight together, none interrupted
NextRace ==
  \E c \in Clients :
    \/ UpdateTodoRead(c)
    \/ UpdateTodoWrite(c)
    \/ UpdateTodoLog(c)
    \/ UpdateSectionRead(c)
    \/ UpdateSectionWrite(c)
    \/ UpdateSectionLog(c)

SpecRace == Init /\ [][NextRace]_vars

\* ------------------------------------------------- the order of a group
\* undo() and redo() order the entries of the group they are given before
\* they apply them.  The ordering on its own, for every group of up to
\* MaxGroup entries of one operation (the entries one call wrote, in
\* ascending id order, as the queries return them).
Operations == {"insert", "update", "delete"}
TableNames == {"sections", "todos"}

GroupOf(operation, tables) ==
  [i \in DOMAIN tables |->
     [id |-> i, isActive |-> TRUE, batchId |-> generateBatchId(0),
      operation |-> operation, tableName |-> tables[i], entityId |-> i,
      data |-> <<>>]]

Groups ==
  {GroupOf(operation, tables) :
     operation \in Operations,
     tables \in UNION {[1..n -> TableNames] : n \in 1..MaxGroup}}

storeVars == <<sections, todos, changelog, seq, batchSeq, last, base, run, scen,
               undoneOrder, calls, now>>

InitOrder ==
  /\ InitStore
  /\ probe \in {[fn |-> "none", arg |-> g, out |-> <<>>] : g \in Groups}

\* undo: orderedEntries
UndoOrdering ==
  /\ probe.fn = "none"
  /\ probe' = [probe EXCEPT !.fn = "undo", !.out = UndoOrder(probe.arg)]
  /\ UNCHANGED storeVars

\* redo: orderedEntries
RedoOrdering ==
  /\ probe.fn = "none"
  /\ probe' = [probe EXCEPT !.fn = "redo", !.out = RedoOrder(probe.arg)]
  /\ UNCHANGED storeVars

NextOrder ==
  \/ UndoOrdering
  \/ RedoOrdering

SpecOrder == InitOrder /\ [][NextOrder]_vars

\* --------------------------------------------------- batch ids by the clock
\* generateBatchId as the code computes it: the millisecond of the call and
\* a random suffix, with no look at the ids already in the log.  Two calls
\* in one millisecond may draw the same suffix.  The batched facade calls
\* with such ids, the clock, and undo / redo.
Suffixes == {1, 2}

\* `batch_${Date.now()}_${Math.random().toString(36).substring(2, 9)}`
generateBatchIdAt(time, suffix) == time * Cardinality(Suffixes) + suffix

\* Date.now() moves on between two calls
Tick ==
  /\ now < MaxClock
  /\ now' = now + 1
  /\ UNCHANGED <<sections, todos, changelog, seq, batchSeq, last, base, run,
                 scen, undoneOrder, calls, probe>>

DeleteSectionAt ==
  \E id \in SectionIds, suffix \in Suffixes :
    /\ Explored({})
    /\ Commit(deleteSection(Db, id, 0, generateBatchIdAt(now, suffix)), "mutation",
              "deleteSection", id, 0, {}, {}, {})

MoveTodosAt ==
  \E todoIds \in TodoIdSets, targetSectionId \in SectionIds, suffix \in Suffixes :
    /\ Explored({})
    /\ Commit(moveTodos(Db, todoIds, targetSectionId, generateBatchIdAt(now, suffix)),
              "mutation", "moveTodos", 0, 0, todoIds, {}, {})

MarkTodosCompletedAt ==
  \E todoIds \in TodoIdSets, completed \in BOOLEAN, suffix \in Suffixes :
    /\ Explored({})
    /\ Commit(markTodosCompleted(Db, todoIds, completed, generateBatchIdAt(now, suffix)),
              "mutation", "markTodosCompleted", 0, 0, todoIds, {}, {})

SetTodosPriorityAt ==
  \E todoIds \in TodoIdSets, priority \in Priorities, suffix \in Suffixes :
    /\ Explored({})
    /\ Commit(setTodosPriority(Db, todoIds, priority, generateBatchIdAt(now, suffix)),
              "mutation", "setTodosPriority", 0, 0, todoIds, {}, {})

SetTodosDueDateAt ==
  \E todoIds \in TodoIdSets, dueDate \in DueDates, suffix \in Suffixes :
    /\ Explored({})
    /\ Commit(setTodosDueDate(Db, todoIds, dueDate, generateBatchIdAt(now, suffix)),
              "mutation", "setTodosDueDate", 0, 0, todoIds, {}, {})

NextBatchIds ==
  \/ Tick
  \/ DeleteSectionAt
  \/ MoveTodosAt
  \/ MarkTodosCompletedAt
  \/ SetTodosPriorityAt
  \/ SetTodosDueDateAt
  \/ Undo
  \/ Redo

SpecBatchIds == Init /\ [][NextBatchIds]_vars

\* ------------------------------------------------ undo / redo, step by step
\* undo() and redo() with one action per awaited statement: the query for
\* the group, one statement per entry of the ordered group, then one
\* setChangelogEntryActiveState per entry of the group.  The facade calls
\* that build the history run between them as in Spec.

\* undo: entries = await getLatestActiveChangelogEntry(); orderedEntries
UndoRead(c) ==
  LET entries == getLatestActiveChangelogEntry(Db)
  IN /\ calls[c].pc = "idle"
     /\ entries # <<>>
     /\ Step(Db, c, [Idle EXCEPT !.op = "undo", !.pc = "apply",
                                 !.rest = UndoOrder(entries), !.entries = entries])

\* undo: one turn of the loop over orderedEntries
UndoApply(c) ==
  LET call == calls[c]
      d1 == UndoEntry(Db, Head(call.rest))
  IN /\ call.op = "undo" /\ call.pc = "apply"
     /\ Step(IF d1.ok THEN d1 ELSE Db, c,
             IF ~d1.ok THEN Idle
             ELSE [call EXCEPT !.rest = Tail(call.rest),
                               !.pc = IF Tail(call.rest) = <<>> THEN "flags" ELSE "apply"])

\* undo: one turn of the loop over entries,
\* await setChangelogEntryActiveState(entry.id, false)
UndoFlag(c) ==
  LET call == calls[c]
  IN /\ call.op = "undo" /\ call.pc = "flags"
     /\ Step(setChangelogEntryActiveState(Db, Head(call.entries).id, FALSE), c,
             IF Tail(call.entries) = <<>> THEN Idle
             ELSE [call EXCEPT !.entries = Tail(call.entries)])

\* redo: entries = await getLatestUndoneChangelogEntry(); orderedEntries
RedoRead(c) ==
  LET entries == getLatestUndoneChangelogEntry(Db)
  IN /\ calls[c].pc = "idle"
     /\ entries # <<>>
     /\ Step(Db, c, [Idle EXCEPT !.op = "redo", !.pc = "apply",
                                 !.rest = RedoOrder(entries), !.entries = entries])

\* redo: one turn of the loop over orderedEntries
RedoApply(c) ==
  LET call == calls[c]
      d1 == RedoEntry(Db, Head(call.rest))
  IN /\ call.op = "redo" /\ call.pc = "apply"
     /\ Step(IF d1.ok THEN d1 ELSE Db, c,
             IF ~d1.ok THEN Idle
             ELSE [call EXCEPT !.rest = Tail(call.rest),
                               !.pc = IF Tail(call.rest) = <<>> THEN "flags" ELSE "apply"])

\* redo: one turn of the loop over entries,
\* await setChangelogEntryActiveState(entry.id, true)
RedoFlag(c) ==
  LET call == calls[c]
  IN /\ call.op = "redo" /\ call.pc = "flags"
     /\ Step(setChangelogEntryActiveState(Db, Head(call.entries).id, TRUE), c,
             IF Tail(call.entries) = <<>> THEN Idle
             ELSE [call EXCEPT !.entries = Tail(call.entries)])

\* one undo() or redo() at a time, which may be interrupted, among facade calls
NextUndoSteps ==
  \/ CreateTodo
  \/ DeleteSection
  \/ MarkTodosCompleted
  \/ \E c \in {1} :
       \/ UndoRead(c)
       \/ UndoApply(c)
       \/ UndoFlag(c)
       \/ RedoRead(c)
       \/ RedoApply(c)
       \/ RedoFlag(c)
       \/ Interrupt(c)

SpecUndoSteps == Init /\ [][NextUndoSteps]_vars

\* ------------------------------------------------- a todo with a due date
\* The update handlers over a database whose todo already has a due date:
\* todoUpdate receives dueDate as a Date object of its own (z.date() behind
\* the superjson transformer), never the object the row was read into.
PrefilledDue ==
  [sections |-> Prefilled.sections,
   todos |-> {[t EXCEPT !.dueDate = DateOf("2025-01-01T09:00:00.000Z")] :
                t \in Prefilled.todos}]

InitDue == InitWith(PrefilledDue) /\ probe = NoProbe

NextDue ==
  \/ UpdateSection
  \/ UpdateTodoPriority
  \/ UpdateTodoText
  \/ UpdateTodoDueDate
  \/ Undo
  \/ Redo

SpecDue == InitDue /\ [][NextDue]_vars

\* ------------------------------------------------------ concurrent undo()
\* Two requests for undo() whose awaited statements interleave, among the
\* facade calls that build the history.
NextUndoRace ==
  \/ CreateTodo
  \/ UpdateTodoPriority
  \/ DeleteSection
  \/ MarkTodosCompleted
  \/ \E c \in Clients :
       \/ UndoRead(c)
       \/ UndoApply(c)
       \/ UndoFlag(c)

SpecUndoRace == Init /\ [][NextUndoRace]_vars

\* ------------------------------------- deleteSection among other requests
\* deleteSection and createTodo step by step for two requests in flight
\* together, with createSection and moveTodos calls between their steps.
NextCascadeRace ==
  \/ CreateSection
  \/ MoveTodos
  \/ \E c \in Clients :
       \/ CreateTodoInsert(c)
       \/ CreateTodoLog(c)
       \/ DeleteSectionRead(c)
       \/ DeleteSectionReadTodos(c)
       \/ DeleteSectionPrune(c)
       \/ DeleteSectionLogTodo(c)
       \/ DeleteSectionTodos(c)
       \/ DeleteSectionDelete(c)
       \/ DeleteSectionLog(c)

SpecCascadeRace == Init /\ [][NextCascadeRace]_vars

\* ---------------------------------------------------------- server start
\* The process ends at any moment and startServer runs again over the
\* database file it left: it listens and calls clearChangelog (the delete
\* runs before the first request is handled).  The calls in flight at the
\* end of the old process are gone.
StartServer ==
  /\ changelog' = clearChangelog(Db).changelog
  /\ last' = [op |-> "startServer", ret |-> "none", id |-> 0, move |-> 0,
              ids |-> {}, group |-> EntryIds(changelog),
              hadInactive |-> HasInactive(changelog), added |-> 0]
  /\ run' = OffRun
  /\ scen' = -1
  /\ undoneOrder' = <<>>
  /\ calls' = [c \in Clients |-> Idle]
  /\ UNCHANGED <<sections, todos, seq, batchSeq, base, now, probe>>

NextRestart ==
  \/ CreateSection
  \/ CreateTodo
  \/ UpdateTodoPriority
  \/ DeleteSection
  \/ MarkTodosCompleted
  \/ Undo
  \/ Redo
  \/ StartServer

SpecRestart == Init /\ [][NextRestart]_vars

\* ----------------------------------------------------------------- claims
NonBatchedOps == {"createSection", "updateSection", "createTodo", "updateTodo",
                  "deleteTodo"}

\* C1: N facade mutations from an empty changelog, then N undo() calls,
\* leave the sections and todos tables as they were before the first one.
C1_FullRoundTrip ==
  (run.ph = "U" /\ run.u = run.m) => Tables = base

\* C2: N recorded mutations, K undo() calls (1 <= K <= N), then K redo()
\* calls: every redo() returned true and the tables are as after the N
\* mutations.
C2_UndoRedoInverse ==
  (run.ph = "R" /\ run.allRec /\ run.r = run.u) => (run.redoOk /\ Tables = run.post)

\* C3: the "Work" scenario.  createSection Work, createTodo in section 1
\* with priority 0, updateTodo 1 to priority 1, deleteSection 1: both rows
\* absent; the undos then give back both rows with priority 1, priority 0,
\* the section alone, nothing; the fifth undo() returns false.
C3_WorkScenario ==
  /\ scen = 1 => HasId(sections, 1) /\ RowById(sections, 1).name = Str("Work")
  /\ scen = 2 => /\ HasId(todos, 1)
                 /\ RowById(todos, 1).priority = 0
                 /\ RowById(todos, 1).sectionId = 1
  /\ scen = 3 => HasId(todos, 1) /\ RowById(todos, 1).priority = 1
  /\ scen = 4 => ~HasId(sections, 1) /\ ~HasId(todos, 1)
  /\ scen = 5 => /\ HasId(sections, 1) /\ HasId(todos, 1)
                 /\ RowById(todos, 1).priority = 1
  /\ scen = 6 => HasId(todos, 1) /\ RowById(todos, 1).priority = 0
  /\ scen = 7 => ~HasId(todos, 1) /\ HasId(sections, 1)
  /\ scen = 8 => ~HasId(sections, 1)
  /\ scen = 9 => last.op = "undo" /\ last.ret = "false"

C3_Witness == scen = 9

\* C4: no active entry has a larger id than an inactive entry.
C4_StackDiscipline ==
  \A i, j \in DOMAIN changelog :
    (changelog[i].isActive /\ ~changelog[j].isActive) => changelog[i].id < changelog[j].id

\* C5: a redo() that re-applies a group re-applies the group that was undone
\* most recently.
C5_RedoMostRecentlyUndone ==
  [][(last'.op = "redo" /\ last'.ret = "true")
       => (undoneOrder # <<>> /\ last'.group = undoneOrder[Len(undoneOrder)])]_vars

\* C6: a non-batched facade mutation that records an entry leaves no undone
\* entry in the log, and a redo() right after it returns false and changes
\* nothing.
C6_NewMutationClearsRedo ==
  [][/\ (last'.op \in NonBatchedOps /\ last'.added > 0) => ~HasInactive(changelog')
     /\ (last.op \in NonBatchedOps /\ last.added > 0 /\ last'.op = "redo")
          => (last'.ret = "false" /\ UNCHANGED <<sections, todos, changelog, seq>>)]_vars

C6_Witness ==
  /\ last.op \in NonBatchedOps /\ last.added > 0 /\ last.hadInactive
  /\ ~HasInactive(changelog)

\* C7: after a batched facade operation that wrote its entries, no inactive
\* entry remains in the log.
C7_BatchedPrunes ==
  (last.op \in BatchedOps /\ last.added > 0) => ~HasInactive(changelog)

\* C8: after every completed call, every todo's sectionId is the id of an
\* existing section.
C8_TodoHasSection ==
  \A t \in todos : \E s \in sections : s.id = t.sectionId

C8_Witness ==
  /\ last.op = "undo" /\ last.ret = "true" /\ Cardinality(last.group) >= 2
  /\ \E t \in todos : \E i \in DOMAIN changelog :
       /\ changelog[i].id \in last.group
       /\ changelog[i].operation = "delete"
       /\ changelog[i].tableName = "todos"
       /\ changelog[i].entityId = t.id

\* C9: deleteSection(id) without moveToSectionId on a section owning k todos
\* appends k+1 entries with one batch id: a delete entry with the full row
\* for each child todo, then the delete entry of the section with its full
\* row, which has the highest id.
C9_CascadeBatch ==
  [][(last'.op = "deleteSection" /\ last'.move = 0 /\ last'.ret = "true") =>
       LET id == last'.id
           children == {t \in todos : t.sectionId = id}
           k == Cardinality(children)
           new == SelectSeq(changelog', LAMBDA e : e.id > seq.changelog)
       IN /\ Len(new) = k + 1
          /\ new[k + 1].batchId # NoBatch
          /\ \A i \in 1..(k + 1) : new[i].batchId = new[k + 1].batchId
                                   /\ new[i].operation = "delete"
                                   /\ new[i].isActive
          /\ \A t \in children : \E i \in 1..k :
               /\ new[i].tableName = "todos"
               /\ new[i].entityId = t.id
               /\ new[i].data = JsonStringify(t)
          /\ new[k + 1].tableName = "sections"
          /\ new[k + 1].entityId = id
          /\ new[k + 1].data = JsonStringify(RowById(sections, id))
          /\ \A i \in 1..k : new[i].id < new[k + 1].id]_vars

C9_Witness ==
  last.op = "deleteSection" /\ last.move = 0 /\ last.ret = "true" /\ last.added = 3

\* C10: one undo() right after deleteSection(id) without moveToSectionId
\* returns true and every row of the batch is back under its original id
\* with the field values it was logged with.
C10_UndoRestoresCascade ==
  [][(last.op = "deleteSection" /\ last.move = 0 /\ last.ret = "true"
        /\ last'.op = "undo") =>
       /\ last'.ret = "true"
       /\ \A i \in DOMAIN changelog :
            changelog[i].id > seq.changelog - last.added =>
              LET e == changelog[i]
                  rows == IF e.tableName = "todos" THEN todos' ELSE sections'
              IN /\ HasId(rows, e.entityId)
                 /\ JsonStringify(RowById(rows, e.entityId)) = e.data]_vars

\* the entries a call appended: those with an id above the ids issued before it
NewEntries(log, issued) == SelectSeq(log, LAMBDA e : e.id > issued)

\* C11: a successful deleteSection(id, moveToSectionId) on a section owning
\* k todos appends k+1 entries with one batch id: for each child todo an
\* update entry with old sectionId = id and new sectionId = moveToSectionId,
\* and the delete entry of the section.
C11_MoveLogsTodoUpdates ==
  [][(last'.op = "deleteSection" /\ last'.move # 0 /\ last'.ret = "true") =>
       LET id == last'.id
           children == {t \in todos : t.sectionId = id}
           new == NewEntries(changelog', seq.changelog)
           n == Len(new)
       IN /\ n = Cardinality(children) + 1
          /\ new[n].operation = "delete" /\ new[n].tableName = "sections"
          /\ new[n].entityId = id /\ new[n].batchId # NoBatch
          /\ \A t \in children : \E i \in 1..(n - 1) :
               /\ new[i].operation = "update" /\ new[i].tableName = "todos"
               /\ new[i].entityId = t.id
               /\ new[i].batchId = new[n].batchId
               /\ new[i].data = [old |-> [sectionId |-> id],
                                 new |-> [sectionId |-> last'.move]]]_vars

C13_NoOpUpdateSilent ==
  [][(last'.op \in {"updateTodo", "updateSection"} /\ last'.ret = "row"
        /\ sections' = sections /\ todos' = todos)
       => changelog' = changelog]_vars

\* the rows of the table an entry is about
RowsOf(tables, entry) ==
  IF entry.tableName = "todos" THEN tables.todos ELSE tables.sections

\* the statement that applies the entry is a delete-by-id or an update-by-id
\* and no row has the id
ByIdNoRow(db, entry, dir) ==
  /\ IF dir = "undo" THEN entry.operation \in {"insert", "update"}
                     ELSE entry.operation \in {"update", "delete"}
  /\ ~HasId(RowsOf(db, entry), entry.entityId)

\* some entry of the list, applied in this order, matches no row at its turn
RECURSIVE MissesRow(_, _, _)
MissesRow(db, entries, dir) ==
  IF entries = <<>> \/ ~db.ok THEN FALSE
  ELSE \/ ByIdNoRow(db, Head(entries), dir)
       \/ MissesRow(IF dir = "undo" THEN UndoEntry(db, Head(entries))
                                    ELSE RedoEntry(db, Head(entries)),
                    Tail(entries), dir)

\* C14: an undo() or redo() in which the delete-by-id or update-by-id of
\* some entry of the group matches no row returns false and leaves every
\* active flag as it was.
C14_MissingRowAborts ==
  [][/\ (last'.op = "undo"
           /\ MissesRow(Db, UndoOrder(getLatestActiveChangelogEntry(Db)), "undo"))
          => (last'.ret = "false" /\ changelog' = changelog)
     /\ (last'.op = "redo"
           /\ MissesRow(Db, RedoOrder(getLatestUndoneChangelogEntry(Db)), "redo"))
          => (last'.ret = "false" /\ changelog' = changelog)]_vars

\* C15: an undo() or redo() of a group of two or more entries that ends in
\* a storage error leaves the sections and todos tables and every active
\* flag as they were before the call.
C15_GroupAtomicOnError ==
  [][(last'.op \in {"undo", "redo"} /\ last'.ret = "throw"
        /\ Cardinality(last'.group) >= 2)
       => UNCHANGED <<sections, todos, changelog>>]_vars

\* the tables that the entries of a log, applied in id order, make of these
Replay(tables, log) ==
  RedoAll([sections |-> tables.sections, todos |-> tables.todos,
           changelog |-> <<>>, seq |-> seq, ok |-> TRUE], log)

\* C16: whenever no call is in flight (each call completed, or was
\* interrupted), rows and log agree: the log's entries applied to the
\* tables of the start give the tables as they are; no row change lacks
\* its entry and no entry lacks its row change.
C16_MutationLogAtomic ==
  (\A c \in Clients : calls[c].pc = "idle") =>
    LET d == Replay(base, changelog)
    IN d.ok /\ d.sections = sections /\ d.todos = todos

\* C17: the old values of the entry an update call appends are the row's
\* values as they were immediately before that call's own write.
C17_OldIsValueBeforeWrite ==
  [][\A c \in Clients :
       (calls[c].pc = "log" /\ calls'[c].pc = "idle"
          /\ Len(changelog') > Len(changelog)) =>
         LET e == changelog'[Len(changelog')]
         IN e.data.old = JsonStringify(Restrict(calls[c].before, DOMAIN e.data.old))]_vars

\* C18: undo() and redo() leave the changelog with the same entries: none
\* inserted, none deleted, no field changed but isActive, and that only on
\* entries of the replayed group.
C18_UndoRedoSilent ==
  [][last'.op \in {"undo", "redo"} =>
       /\ Len(changelog') = Len(changelog)
       /\ seq'.changelog = seq.changelog
       /\ \A i \in DOMAIN changelog :
            /\ [changelog'[i] EXCEPT !.isActive = changelog[i].isActive] = changelog[i]
            /\ changelog[i].id \notin last'.group => changelog'[i] = changelog[i]]_vars

\* a redo() re-applied a group while the log held an entry outside it
C18_Witness ==
  /\ last.op = "redo" /\ last.ret = "true"
  /\ \E i, j \in DOMAIN changelog :
       /\ changelog[i].id \in last.group /\ changelog[i].isActive
       /\ changelog[j].id \notin last.group

\* the entity ids of the group's entries with this operation on this table
Logged(log, group, operation, tableName) ==
  {log[i].entityId : i \in {j \in DOMAIN log : /\ log[j].id \in group
                                                /\ log[j].operation = operation
                                                /\ log[j].tableName = tableName}}

Ids(rows) == {r.id : r \in rows}

\* C19: the rows an undo() or redo() adds carry the entityId of the group's
\* delete entries (undo) or insert entries (redo); when the call returns
\* true each of those rows exists; no id counter moves and no entry's
\* entityId changes.
C19_RecreateKeepsId ==
  [][last'.op \in {"undo", "redo"} =>
       LET operation == IF last'.op = "undo" THEN "delete" ELSE "insert"
           secIds == Logged(changelog, last'.group, operation, "sections")
           todoIds == Logged(changelog, last'.group, operation, "todos")
       IN /\ Ids(sections') \ Ids(sections) \subseteq secIds
          /\ Ids(todos') \ Ids(todos) \subseteq todoIds
          /\ last'.ret = "true" => /\ secIds \subseteq Ids(sections')
                                   /\ todoIds \subseteq Ids(todos')
          /\ seq' = seq
          /\ \A i \in DOMAIN changelog : changelog'[i].entityId = changelog[i].entityId]_vars

\* an undo() recreated a deleted row to which an entry outside the group
\* refers as well
C19_Witness ==
  /\ last.op = "undo" /\ last.ret = "true"
  /\ \E i, j \in DOMAIN changelog :
       /\ changelog[i].id \in last.group /\ changelog[i].operation = "delete"
       /\ changelog[j].id \notin last.group
       /\ changelog[j].tableName = changelog[i].tableName
       /\ changelog[j].entityId = changelog[i].entityId
       /\ HasId(RowsOf(Tables, changelog[i]), changelog[i].entityId)

\* C20: for every entry of the group an undo() or redo() replays: undo of
\* insert and redo of delete leave no row with the id; undo of delete and
\* redo of insert leave the logged row under the id; undo (redo) of update
\* on an existing row leaves the old (new) values in the payload's fields
\* and every other field as it was.
C20_PerEntrySemantics ==
  [][last'.op \in {"undo", "redo"} =>
       \A i \in DOMAIN changelog : changelog[i].id \in last'.group =>
         LET e == changelog[i]
             isUndo == last'.op = "undo"
             before == RowsOf(Tables, e)
             after == RowsOf([sections |-> sections', todos |-> todos'], e)
             vals == IF isUndo THEN e.data.old ELSE e.data.new
         IN /\ (e.operation = (IF isUndo THEN "insert" ELSE "delete"))
                 => ~HasId(after, e.entityId)
            /\ (e.operation = (IF isUndo THEN "delete" ELSE "insert"))
                 => /\ HasId(after, e.entityId)
                    /\ JsonStringify(RowById(after, e.entityId)) = e.data
            /\ (e.operation = "update" /\ HasId(before, e.entityId))
                 => /\ HasId(after, e.entityId)
                    /\ LET b == RowById(before, e.entityId)
                           a == RowById(after, e.entityId)
                       IN \A f \in DOMAIN a :
                            IF f \in DOMAIN vals THEN JsonStringify(a)[f] = vals[f]
                                                 ELSE a[f] = b[f]]_vars

\* every entry of the first table stands before every entry of the second
Before(entries, first, second) ==
  \A i, j \in DOMAIN entries :
    (entries[i].tableName = first /\ entries[j].tableName = second) => i < j

HasOperation(entries, operation) ==
  \E i \in DOMAIN entries : entries[i].operation = operation

C22_RedoGroupOrder ==
  probe.fn = "redo" =>
    /\ Len(probe.out) = Len(probe.arg)
    /\ {probe.out[i] : i \in DOMAIN probe.out} = {probe.arg[i] : i \in DOMAIN probe.arg}
    /\ IF HasOperation(probe.arg, "delete")
         THEN Before(probe.out, "todos", "sections")
         ELSE Before(probe.out, "sections", "todos")

\* a group of deletes on both tables, as deleteSection writes it, was ordered
\* for redo
C22_Witness ==
  /\ probe.fn = "redo"
  /\ HasOperation(probe.arg, "delete")
  /\ \E i, j \in DOMAIN probe.out :
       probe.out[i].tableName = "todos" /\ probe.out[j].tableName = "sections"

\* C23: getLatestActiveChangelogEntry returns nothing when the log has no
\* active entry; otherwise it takes the active entry with the highest id and
\* returns that entry alone when it has no batch id, and all the active
\* entries with its batch id, in ascending id order, when it has one.
C23_LatestActiveGroup ==
  LET out == getLatestActiveChangelogEntry(Db)
      active == {i \in DOMAIN changelog : changelog[i].isActive}
      top == CHOOSE i \in active : \A j \in active : changelog[j].id <= changelog[i].id
  IN IF active = {} THEN out = <<>>
     ELSE IF changelog[top].batchId = NoBatch THEN out = <<changelog[top]>>
     ELSE /\ {out[k] : k \in DOMAIN out} =
               {changelog[i] : i \in {j \in active :
                                        changelog[j].batchId = changelog[top].batchId}}
          /\ \A k, l \in DOMAIN out : k < l => out[k].id < out[l].id

\* the latest active entry belongs to a batch of several entries, and the
\* log holds another active entry that the query leaves out
C23_Witness ==
  /\ Len(getLatestActiveChangelogEntry(Db)) >= 2
  /\ \E i \in DOMAIN changelog :
       /\ changelog[i].isActive
       /\ changelog[i].id \notin EntryIds(getLatestActiveChangelogEntry(Db))

\* C24: every update entry in the log has old and new maps over the same
\* keys, and for every key the old value differs from the new value: no
\* update entry records a field whose value did not change.
C24_UpdateRecordsChanges ==
  \A i \in DOMAIN changelog :
    changelog[i].operation = "update" =>
      /\ DOMAIN changelog[i].data.old = DOMAIN changelog[i].data.new
      /\ \A f \in DOMAIN changelog[i].data.old :
           changelog[i].data.old[f] # changelog[i].data.new[f]

\* C26: updateSection / updateTodo on an id that has no row returns null
\* and deleteSection / deleteTodo on an id that has no row returns false;
\* in each case the sections table, the todos table and the changelog, its
\* undone entries included, are left as they were.
C26_NotFoundLeavesAll ==
  [][LET onSection == last'.op \in {"updateSection", "deleteSection"}
         onTodo == last'.op \in {"updateTodo", "deleteTodo"}
     IN ((onSection /\ ~HasId(sections, last'.id))
           \/ (onTodo /\ ~HasId(todos, last'.id)))
        => /\ last'.ret = IF last'.op \in {"updateSection", "updateTodo"}
                            THEN "null" ELSE "false"
           /\ sections' = sections
           /\ todos' = todos
           /\ changelog' = changelog]_vars

\* deleteSection was called for an id with no row while the log held undone
\* entries, which are still there
C26_Witness ==
  /\ last.op = "deleteSection" /\ last.ret = "false"
  /\ last.hadInactive /\ HasInactive(changelog)

\* C27: undo() returns false when the log has no active entry and redo()
\* returns false when the log has no inactive entry; in both cases the
\* sections, todos and changelog tables are left as they were.
C27_NothingToDoIsFalse ==
  [][((last'.op = "undo" /\ \A i \in DOMAIN changelog : ~changelog[i].isActive)
        \/ (last'.op = "redo" /\ ~HasInactive(changelog)))
       => /\ last'.ret = "false"
          /\ sections' = sections
          /\ todos' = todos
          /\ changelog' = changelog]_vars

\* redo() was called on a log that holds entries, all of them active, and
\* returned false
C27_Witness ==
  /\ last.op = "redo" /\ last.ret = "false"
  /\ changelog # <<>>

\* what undo / redo read back from the log entry that a row was written to
RoundTrip(row) == parseDates(JsonParse(JsonStringify(row)))

\* C28: a row serialized into a log entry and read back for undo / redo
\* (JSON.stringify, then JSON.parse and parseDates) comes back with every
\* field of its original type and value, for every row of the two tables.
C28_PayloadRoundTrip ==
  \A row \in sections \cup todos : RoundTrip(row) = row

\* C29: a facade mutation, undo() or redo() removes entries from the log
\* only by pruning, which removes exactly the entries that are inactive at
\* that moment: no active entry is ever removed, and the id of a removed
\* entry is never given to a later entry.
C29_OnlyPruningRemoves ==
  [][LET removed == EntryIds(changelog) \ EntryIds(changelog')
         inactive == {changelog[i].id : i \in {j \in DOMAIN changelog :
                                                  ~changelog[j].isActive}}
     IN /\ removed # {} => removed = inactive
        /\ \A i \in DOMAIN changelog :
             changelog[i].isActive => changelog[i].id \in EntryIds(changelog')
        /\ \A id \in EntryIds(changelog') \ EntryIds(changelog) :
             id > seq.changelog]_vars

\* deleteSection removed the undone entries of the log and wrote its own
C29_Witness ==
  /\ last.op = "deleteSection" /\ last.ret = "true"
  /\ last.hadInactive /\ ~HasInactive(changelog)
  /\ changelog # <<>>

\* C25: the batch id a batched facade call writes on its entries is the
\* batch id of no entry already in the log, so that two calls never share
\* a batch id and a group never holds the entries of two calls.
C25_BatchIdsFresh ==
  [][\A i \in DOMAIN changelog' :
       (changelog'[i].id > seq.changelog /\ changelog'[i].batchId # NoBatch)
         => \A j \in DOMAIN changelog :
              changelog[j].batchId # changelog'[i].batchId]_vars

\* C30: in every state in which no undo() or redo() is in progress, all the
\* log entries that share a batch id have the same active flag: a batch is
\* never partly active and partly undone.
C30_BatchFlagsAgree ==
  (\A c \in Clients : calls[c].op \notin {"undo", "redo"})
    => \A i, j \in DOMAIN changelog :
         (changelog[i].batchId # NoBatch
            /\ changelog[i].batchId = changelog[j].batchId)
           => changelog[i].isActive = changelog[j].isActive

\* the statement that applies the entry is an insert with the entry's id
\* and a row has that id
InsertOnRow(db, entry, dir) ==
  /\ entry.operation = (IF dir = "undo" THEN "delete" ELSE "insert")
  /\ HasId(RowsOf(db, entry), entry.entityId)

\* some entry of the list, applied in this order, inserts an id that is in
\* the table at its turn
RECURSIVE Collides(_, _, _)
Collides(db, entries, dir) ==
  IF entries = <<>> \/ ~db.ok THEN FALSE
  ELSE \/ InsertOnRow(db, Head(entries), dir)
       \/ Collides(IF dir = "undo" THEN UndoEntry(db, Head(entries))
                                   ELSE RedoEntry(db, Head(entries)),
                   Tail(entries), dir)

\* C31: in every state reached by facade mutations, undo() and redo() run
\* one at a time, the insert that undo() makes for a delete entry and the
\* insert that redo() makes for an insert entry never target an id that is
\* in the table: recreation with the original id never meets an existing row.
C31_RecreateNeverCollides ==
  /\ ~Collides(Db, UndoOrder(getLatestActiveChangelogEntry(Db)), "undo")
  /\ ~Collides(Db, RedoOrder(getLatestUndoneChangelogEntry(Db)), "redo")

\* the statement redo() makes for the entry breaks the reference of todos to
\* sections: it inserts a todo whose section is absent, or deletes a section
\* that a todo still names
RedoBreaksFk(db, entry) ==
  \/ /\ entry.operation = "insert" /\ entry.tableName = "todos"
     /\ ~HasId(db.sections, JsonParse(entry.data).sectionId)
  \/ /\ entry.operation = "delete" /\ entry.tableName = "sections"
     /\ \E t \in db.todos : t.sectionId = entry.entityId

\* some entry of the list, re-applied in this order, breaks the reference at
\* its turn
RECURSIVE RedoHitsFk(_, _)
RedoHitsFk(db, entries) ==
  IF entries = <<>> \/ ~db.ok THEN FALSE
  ELSE \/ RedoBreaksFk(db, Head(entries))
       \/ RedoHitsFk(RedoEntry(db, Head(entries)), Tail(entries))

\* C32: in every state reached by facade mutations followed by undo()
\* calls, run one at a time, the redo() of the undone group it finds meets
\* no foreign-key error: it inserts no todo whose section is absent and
\* deletes no section that a todo still references.
C32_RedoKeepsReference ==
  run.ph \in {"M", "U"}
    => ~RedoHitsFk(Db, RedoOrder(getLatestUndoneChangelogEntry(Db)))

\* the entries of the log that carry this batch id
BatchOf(log, batchId) == {log[i] : i \in {j \in DOMAIN log : log[j].batchId = batchId}}

Flags(log) == {<<log[i].id, log[i].isActive>> : i \in DOMAIN log}

\* C34: in every state reached by facade mutations, undo() and redo() run
\* one at a time, a successful undo() immediately followed by redo() leaves
\* the sections and todos tables and every log entry's active flag as they
\* were before the undo().
C34_UndoThenRedo ==
  [][(last'.op = "undo" /\ last'.ret = "true") =>
       LET after == redo([sections |-> sections', todos |-> todos',
                          changelog |-> changelog', seq |-> seq', ok |-> TRUE])
       IN /\ after.db.sections = sections
          /\ after.db.todos = todos
          /\ Flags(after.db.changelog) = Flags(changelog)]_vars

\* C35: an updateTodo or updateSection call whose values all equal the
\* row's current values leaves the changelog as it was, undone entries
\* included: the redo stack is not pruned, and a following redo() still
\* finds the last undone group.
C35_NoOpUpdateKeepsRedo ==
  [][(last'.op \in {"updateTodo", "updateSection"} /\ last'.ret = "row"
        /\ sections' = sections /\ todos' = todos /\ HasInactive(changelog))
       => /\ changelog' = changelog
          /\ getLatestUndoneChangelogEntry([Db EXCEPT !.changelog = changelog'])
               = getLatestUndoneChangelogEntry(Db)]_vars

\* C36: when two undo() calls run concurrently, no group is applied twice:
\* a call applies the inverse of an entry only while the entry is still
\* active and no other undo() in progress has applied it, so that the two
\* calls undo different groups.
C36_UndoAppliesOnce ==
  [][\A c \in Clients :
       (calls[c].op = "undo" /\ calls[c].pc = "apply" /\ calls'[c].op = "undo"
          /\ Len(calls'[c].rest) < Len(calls[c].rest))
         => LET entry == Head(calls[c].rest)
            IN /\ \E i \in DOMAIN changelog :
                    changelog[i].id = entry.id /\ changelog[i].isActive
               /\ \A d \in Clients \ {c} :
                    ~(/\ calls[d].op = "undo"
                      /\ entry.id \in EntryIds(calls[d].entries)
                      /\ entry.id \notin EntryIds(calls[d].rest))]_vars

\* C37: when deleteSection(id) without moveToSectionId runs concurrently
\* with a createTodo or moveTodos that puts a todo into section id, every
\* todo row the cascade removes has a delete entry in the log: no todo is
\* deleted from the store without being logged.
C37_CascadeLogsEveryTodo ==
  [][\A t \in todos :
       ~HasId(todos', t.id)
         => \E i \in DOMAIN changelog' :
              /\ changelog'[i].operation = "delete"
              /\ changelog'[i].tableName = "todos"
              /\ changelog'[i].entityId = t.id]_vars

\* C38: server start empties the history without touching the data: after
\* the clearChangelog of startServer the changelog has no entry and the
\* sections and todos tables are as before it, and as long as no facade
\* mutation has recorded an entry since, undo() and redo() return false and
\* change nothing.
C38_StartClearsHistory ==
  [][/\ last'.op = "startServer"
          => (changelog' = <<>> /\ sections' = sections /\ todos' = todos)
     /\ (changelog = <<>> /\ last'.op \in {"undo", "redo"})
          => (last'.ret = "false"
                /\ UNCHANGED <<sections, todos, changelog>>)]_vars

\* a start over tables with rows removed an active and an undone entry
C38_Witness ==
  /\ last.op = "startServer" /\ last.hadInactive
  /\ Cardinality(last.group) >= 2
  /\ changelog = <<>>
  /\ sections # {}

====
